---- MODULE Spec2Model ----
(***************************************************************************)
(* A model of src/src/otx/algo/detection/backbones/presnet.py: the PResNet *)
(* backbone (constructor, parameter freezing, batch-norm freezing,         *)
(* forward) and FrozenBatchNorm2d (buffers, forward, state-dict loading).  *)
(*                                                                         *)
(* A module is a record: its class, its attributes, its own parameters     *)
(* (name, requires_grad), its own buffers (name, value) and its registered *)
(* children in registration order (name, module).  A tensor is a record:   *)
(* its channel count, the stride it has with respect to the input image,   *)
(* the trail of the PResNet.forward steps that produced it, and whether    *)
(* the framework would have accepted the shapes on the way.                *)
(***************************************************************************)
EXTENDS Integers, Sequences, FiniteSets, TLC

VARIABLES
    pc,             \* "new", "ready", "KeyError", "IndexError", "frozen_bn"
    args,           \* the constructor arguments of the PResNet
    net,            \* the PResNet module tree (NoModule before construction)
    out_channels,   \* PResNet.out_channels
    out_strides,    \* PResNet.out_strides
    outs,           \* the list returned by the last PResNet.forward
    fbn,            \* a FrozenBatchNorm2d instance
    state_dict,     \* the state dict the base loader was handed, when op is a load
    loaded,         \* the arguments of _load_from_state_dict, when op is a load
    missing_keys,   \* missing_keys after the load, when op is a load
    unexpected_keys,\* unexpected_keys after the load, when op is a load
    y,              \* the tensor FrozenBatchNorm2d.forward returned, when op is that
    op              \* the name of the last operation

vars == <<pc, args, net, out_channels, out_strides, outs, fbn, state_dict,
          loaded, missing_keys, unexpected_keys, y, op>>

netVars == <<pc, args, net, out_channels, out_strides, outs>>
fbnVars == <<fbn, state_dict, loaded, missing_keys, unexpected_keys, y>>

----------------------------------------------------------------------------
(* Bounds of the model *)

MaxReturnLen == 2       \* longest return_idx drawn besides the default
MaxFreezeAt == 4        \* largest freeze_at drawn
NumInputs == 2          \* distinct input images
MaxVal == 2             \* tensor values of a state dict are drawn from 0..MaxVal
MaxFeatures == 2        \* num_features of the FrozenBatchNorm2d is 1..MaxFeatures

----------------------------------------------------------------------------
(* Modules *)

ResNet_cfg ==
    (18 :> <<2, 2, 2, 2>>) @@ (34 :> <<3, 4, 6, 3>>) @@
    (50 :> <<3, 4, 6, 3>>) @@ (101 :> <<3, 4, 23, 3>>)

NoModule == [cls |-> "None"]

Module(cls) ==
    [cls |-> cls, ch_in |-> 0, ch_out |-> 0, stride |-> 1, num_features |-> 0,
     shortcut |-> FALSE, params |-> <<>>, buffers |-> <<>>, children |-> <<>>]

Parameter(name) == [name |-> name, requires_grad |-> TRUE]

Buffer(name, value) == [name |-> name, value |-> value]

Named(name, m) == [name |-> name, module |-> m]

\* nn.Conv2d(ch_in, ch_out, kernel_size, stride, padding=(k - 1) // 2, bias=bias):
\* with that padding the spatial size is divided by the stride.
Conv2d(ch_in, ch_out, stride, bias) ==
    [Module("Conv2d") EXCEPT
        !.ch_in = ch_in, !.ch_out = ch_out, !.stride = stride,
        !.params = IF bias THEN <<Parameter("weight"), Parameter("bias")>>
                           ELSE <<Parameter("weight")>>]

\* nn.BatchNorm2d(n) with the defaults affine=True, track_running_stats=True
BatchNorm2d(n) ==
    [Module("BatchNorm2d") EXCEPT
        !.num_features = n,
        !.params = <<Parameter("weight"), Parameter("bias")>>,
        !.buffers = <<Buffer("running_mean", 0), Buffer("running_var", 1),
                      Buffer("num_batches_tracked", 0)>>]

\* a normalisation layer that is no BatchNorm2d (norm_cfg type "GN")
GroupNorm(n) ==
    [Module("GroupNorm") EXCEPT
        !.num_features = n,
        !.params = <<Parameter("weight"), Parameter("bias")>>]

FrozenBatchNorm2d(num_features) ==
    [Module("FrozenBatchNorm2d") EXCEPT
        !.num_features = num_features,
        !.buffers = <<Buffer("weight", 1), Buffer("bias", 0),
                      Buffer("running_mean", 0), Buffer("running_var", 1)>>]

AvgPool2d(stride) == [Module("AvgPool2d") EXCEPT !.stride = stride]

\* build_activation_layer(act_cfg) / nn.Identity()
Activation(act) == IF act THEN Module("ReLU") ELSE Module("Identity")

Sequential(children) == [Module("Sequential") EXCEPT !.children = children]

ModuleList(children) == [Module("ModuleList") EXCEPT !.children = children]

\* otx.algo.modules.ConvModule: conv, then the norm layer of norm_cfg
\* registered under norm_cfg's name, then the activation when act_cfg is given;
\* the convolution has a bias only when there is no norm layer.
ConvModule(c_in, c_out, stride, act, norm_type) ==
    [Module("ConvModule") EXCEPT
        !.children =
            <<Named("conv", Conv2d(c_in, c_out, stride, norm_type = "None"))>>
            \o (CASE norm_type = "BN" -> <<Named("norm", BatchNorm2d(c_out))>>
                  [] norm_type = "GN" -> <<Named("norm", GroupNorm(c_out))>>
                  [] OTHER -> <<>>)
            \o (IF act THEN <<Named("activate", Activation(TRUE))>> ELSE <<>>)]

\* the shortcut branch of a block that has one
Short(ch_in, ch_out, stride, variant, norm_type) ==
    IF variant = "d" /\ stride = 2
    THEN Sequential(<<Named("pool", AvgPool2d(2)),
                      Named("conv", ConvModule(ch_in, ch_out, 1, FALSE, norm_type))>>)
    ELSE ConvModule(ch_in, ch_out, stride, FALSE, norm_type)

Expansion(block) == IF block = "BottleNeck" THEN 4 ELSE 1

BasicBlock(ch_in, ch_out, stride, shortcut, variant, norm_type) ==
    [Module("BasicBlock") EXCEPT
        !.shortcut = shortcut,
        !.children =
            (IF shortcut THEN <<>>
             ELSE <<Named("short", Short(ch_in, ch_out, stride, variant, norm_type))>>)
            \o <<Named("branch2a", ConvModule(ch_in, ch_out, stride, TRUE, norm_type)),
                 Named("branch2b", ConvModule(ch_out, ch_out, 1, FALSE, norm_type)),
                 Named("act", Activation(TRUE))>>]

BottleNeck(ch_in, ch_out, stride, shortcut, variant, norm_type) ==
    LET stride1 == IF variant = "a" THEN stride ELSE 1
        stride2 == IF variant = "a" THEN 1 ELSE stride
        width == ch_out
    IN  [Module("BottleNeck") EXCEPT
            !.shortcut = shortcut,
            !.children =
                <<Named("branch2a", ConvModule(ch_in, width, stride1, TRUE, norm_type)),
                  Named("branch2b", ConvModule(width, width, stride2, TRUE, norm_type)),
                  Named("branch2c", ConvModule(width, ch_out * Expansion("BottleNeck"), 1, FALSE, norm_type))>>
                \o (IF shortcut THEN <<>>
                    ELSE <<Named("short",
                                 Short(ch_in, ch_out * Expansion("BottleNeck"), stride, variant, norm_type))>>)
                \o <<Named("act", Activation(TRUE))>>]

Block(block, ch_in, ch_out, stride, shortcut, variant, norm_type) ==
    IF block = "BottleNeck"
    THEN BottleNeck(ch_in, ch_out, stride, shortcut, variant, norm_type)
    ELSE BasicBlock(ch_in, ch_out, stride, shortcut, variant, norm_type)

\* Blocks.__init__: block i of count; i counts from 0
Blocks(block, ch_in, ch_out, count, stage_num, variant, norm_type) ==
    [Module("Blocks") EXCEPT
        !.children = <<Named("blocks", ModuleList(
            [k \in 1..count |->
                LET i == k - 1
                IN  Named(ToString(i),
                          Block(block,
                                IF i = 0 THEN ch_in ELSE ch_out * Expansion(block),
                                ch_out,
                                IF i = 0 /\ stage_num # 2 THEN 2 ELSE 1,
                                i # 0,
                                variant, norm_type))]))>>]

----------------------------------------------------------------------------
(* PResNet.__init__ *)

ch_out_list == <<64, 128, 256, 512>>

\* a Python list subscript: lst[i] for -len <= i < len, IndexError otherwise
InRange(lst, i) == -Len(lst) <= i /\ i < Len(lst)
At(lst, i) == lst[(i % Len(lst)) + 1]

\* the block choice with the comparison off by one
BlockOfAbove50(depth) == IF depth > 50 THEN "BottleNeck" ELSE "BasicBlock"

BlockOf(depth) == IF depth >= 50 THEN "BottleNeck" ELSE "BasicBlock"

_out_channels(depth) ==
    [k \in 1..Len(ch_out_list) |-> Expansion(BlockOf(depth)) * ch_out_list[k]]

_out_strides == <<4, 8, 16, 32>>

\* self.conv1: the stem of conv_def
Conv1(variant, norm_type) ==
    LET ch_in == 64
    IN  IF variant \in {"c", "d"}
        THEN Sequential(
               <<Named("conv1_1", ConvModule(3, ch_in \div 2, 2, TRUE, norm_type)),
                 Named("conv1_2", ConvModule(ch_in \div 2, ch_in \div 2, 1, TRUE, norm_type)),
                 Named("conv1_3", ConvModule(ch_in \div 2, ch_in, 1, TRUE, norm_type))>>)
        ELSE Sequential(<<Named("conv1_1", ConvModule(3, ch_in, 2, TRUE, norm_type))>>)

\* self.res_layers: stage i of num_stages (num_stages <= 4 here)
ResLayers(depth, variant, num_stages, norm_type) ==
    ModuleList(
        [k \in 1..num_stages |->
            LET i == k - 1
                stage_num == i + 2
                ch_in == IF i = 0 THEN 64 ELSE At(_out_channels(depth), i - 1)
            IN  Named(ToString(i),
                      Blocks(BlockOf(depth), ch_in, At(ch_out_list, i),
                             At(ResNet_cfg[depth], i), stage_num, variant, norm_type))])

Child(m, name) ==
    m.children[CHOOSE k \in 1..Len(m.children) : m.children[k].name = name].module
SetChild(m, name, c) ==
    [m EXCEPT !.children =
        [k \in 1..Len(m.children) |->
            IF m.children[k].name = name THEN Named(name, c) ELSE m.children[k]]]

Min(a, b) == IF a < b THEN a ELSE b

\* _freeze_parameters: every parameter of m, its descendants' included
RECURSIVE _freeze_parameters(_)
_freeze_parameters(m) ==
    [m EXCEPT
        !.params = [k \in 1..Len(m.params) |->
                        [m.params[k] EXCEPT !.requires_grad = FALSE]],
        !.children = [k \in 1..Len(m.children) |->
                        Named(m.children[k].name,
                              _freeze_parameters(m.children[k].module))]]

\* the freeze_at block taking freeze_at = 0 for "freeze nothing"
FreezeAtPositive(m, freeze_at, num_stages) ==
    IF freeze_at > 0
    THEN LET res == Child(m, "res_layers")
             frozen ==
                [res EXCEPT !.children =
                    [k \in 1..Len(res.children) |->
                        IF k - 1 < Min(freeze_at, num_stages)
                        THEN Named(res.children[k].name,
                                   _freeze_parameters(res.children[k].module))
                        ELSE res.children[k]]]
         IN  SetChild(SetChild(m, "conv1", _freeze_parameters(Child(m, "conv1"))),
                      "res_layers", frozen)
    ELSE m

\* the freeze_at block of __init__
FreezeAt(m, freeze_at, num_stages) ==
    IF freeze_at >= 0
    THEN LET res == Child(m, "res_layers")
             frozen ==
                [res EXCEPT !.children =
                    [k \in 1..Len(res.children) |->
                        IF k - 1 < Min(freeze_at, num_stages)
                        THEN Named(res.children[k].name,
                                   _freeze_parameters(res.children[k].module))
                        ELSE res.children[k]]]
         IN  SetChild(SetChild(m, "conv1", _freeze_parameters(Child(m, "conv1"))),
                      "res_layers", frozen)
    ELSE m

\* _freeze_norm without the recursion: only a BatchNorm2d that is a direct
\* child of m is replaced
FreezeNormShallow(m) ==
    IF m.cls = "BatchNorm2d"
    THEN FrozenBatchNorm2d(m.num_features)
    ELSE [m EXCEPT !.children =
            [k \in 1..Len(m.children) |->
                IF m.children[k].module.cls = "BatchNorm2d"
                THEN Named(m.children[k].name,
                           FrozenBatchNorm2d(m.children[k].module.num_features))
                ELSE m.children[k]]]

\* _freeze_norm: a BatchNorm2d is answered by a new FrozenBatchNorm2d; any other
\* module has each child that came back as another module set again under the
\* child's name, and is answered itself.  Modules are values here, so a child
\* whose descendant was replaced is written back as well.
RECURSIVE _freeze_norm(_)
_freeze_norm(m) ==
    IF m.cls = "BatchNorm2d"
    THEN FrozenBatchNorm2d(m.num_features)
    ELSE [m EXCEPT !.children =
            [k \in 1..Len(m.children) |->
                Named(m.children[k].name, _freeze_norm(m.children[k].module))]]

\* the layers of __init__, before any freezing
BuildLayers(a) ==
    [Module("PResNet") EXCEPT !.children =
        <<Named("conv1", Conv1(a.variant, a.norm_type)),
          Named("res_layers",
                ResLayers(a.depth, a.variant, a.num_stages, a.norm_type))>>]

\* PResNet.__init__ (pretrained=False)
PResNet(a) ==
    IF a.depth \notin DOMAIN ResNet_cfg
    THEN [pc |-> "KeyError", net |-> NoModule,
          out_channels |-> <<>>, out_strides |-> <<>>]
    ELSE IF a.num_stages > Len(ch_out_list)
            \/ \E k \in 1..Len(a.return_idx) :
                    ~InRange(_out_channels(a.depth), a.return_idx[k])
    THEN [pc |-> "IndexError", net |-> NoModule,
          out_channels |-> <<>>, out_strides |-> <<>>]
    ELSE LET built == BuildLayers(a)
             frozen == FreezeAt(built, a.freeze_at, a.num_stages)
         IN  [pc |-> "ready",
              net |-> IF a.freeze_norm THEN _freeze_norm(frozen) ELSE frozen,
              out_channels |-> [k \in 1..Len(a.return_idx) |->
                                    At(_out_channels(a.depth), a.return_idx[k])],
              out_strides |-> [k \in 1..Len(a.return_idx) |->
                                    At(_out_strides, a.return_idx[k])]]

----------------------------------------------------------------------------
(* forward *)

Tensor(id) == [id |-> id, c |-> 3, stride |-> 1, trail |-> <<>>, ok |-> TRUE]

Step(x, name) == [x EXCEPT !.trail = Append(@, name)]

RECURSIVE ModuleForward(_, _)
RECURSIVE ApplyAll(_, _, _)

\* the children k.. of a container, each on the previous one's output; a shape
\* the framework rejects raises, and nothing after it runs
ApplyAll(children, k, x) ==
    IF k > Len(children) \/ ~x.ok THEN x
    ELSE ApplyAll(children, k + 1, ModuleForward(children[k].module, x))

\* out = out + short, then the activation
AddShort(m, out, short) ==
    ModuleForward(Child(m, "act"),
        [out EXCEPT !.ok = out.ok /\ short.ok /\ out.c = short.c
                                 /\ out.stride = short.stride])

ModuleForward(m, x) ==
    CASE m.cls = "Conv2d" ->
            [x EXCEPT !.ok = x.ok /\ x.c = m.ch_in, !.c = m.ch_out,
                      !.stride = x.stride * m.stride]
      [] m.cls \in {"BatchNorm2d", "FrozenBatchNorm2d", "GroupNorm"} ->
            [x EXCEPT !.ok = x.ok /\ x.c = m.num_features]
      [] m.cls = "AvgPool2d" -> [x EXCEPT !.stride = x.stride * m.stride]
      [] m.cls \in {"ReLU", "Identity"} -> x
      [] m.cls \in {"Sequential", "ConvModule"} -> ApplyAll(m.children, 1, x)
      [] m.cls = "Blocks" -> ApplyAll(Child(m, "blocks").children, 1, x)
      [] m.cls = "BasicBlock" ->
            LET out == ModuleForward(Child(m, "branch2b"),
                            ModuleForward(Child(m, "branch2a"), x))
                short == IF m.shortcut THEN x ELSE ModuleForward(Child(m, "short"), x)
            IN  AddShort(m, out, short)
      [] m.cls = "BottleNeck" ->
            LET out == ModuleForward(Child(m, "branch2c"),
                            ModuleForward(Child(m, "branch2b"),
                                ModuleForward(Child(m, "branch2a"), x)))
                short == IF m.shortcut THEN x ELSE ModuleForward(Child(m, "short"), x)
            IN  AddShort(m, out, short)

\* F.max_pool2d(conv1, kernel_size=3, stride=2, padding=1)
max_pool2d(x) == Step([x EXCEPT !.stride = x.stride * 2], "max_pool2d")

Elems(lst) == {lst[k] : k \in 1..Len(lst)}

\* the loop running only the stages it returns
RECURSIVE ForwardLoopSkipping(_, _, _, _, _)
ForwardLoopSkipping(stages, k, x, acc, return_idx) ==
    IF k > Len(stages) THEN [ok |-> TRUE, outs |-> acc]
    ELSE IF (k - 1) \notin Elems(return_idx)
    THEN ForwardLoopSkipping(stages, k + 1, x, acc, return_idx)
    ELSE LET x2 == Step(ModuleForward(stages[k].module, x), stages[k].name)
         IN  IF ~x2.ok THEN [ok |-> FALSE, outs |-> <<>>]
             ELSE ForwardLoopSkipping(stages, k + 1, x2, Append(acc, x2), return_idx)

\* the loop of forward over enumerate(self.res_layers), from stage k - 1 on
RECURSIVE ForwardLoop(_, _, _, _, _)
ForwardLoop(stages, k, x, acc, return_idx) ==
    IF k > Len(stages) THEN [ok |-> TRUE, outs |-> acc]
    ELSE LET idx == k - 1
             x2 == Step(ModuleForward(stages[k].module, x), stages[k].name)
         IN  IF ~x2.ok THEN [ok |-> FALSE, outs |-> <<>>]
             ELSE ForwardLoop(stages, k + 1, x2,
                              IF idx \in Elems(return_idx) THEN Append(acc, x2)
                                                           ELSE acc,
                              return_idx)

PResNet_forward(self, return_idx, x) ==
    LET conv1 == Step(ModuleForward(Child(self, "conv1"), x), "conv1")
    IN  ForwardLoop(Child(self, "res_layers").children, 1, max_pool2d(conv1),
                    <<>>, return_idx)

----------------------------------------------------------------------------
(* The PResNet as a state machine *)

NoArgs == [depth |-> 0]

Depths == DOMAIN ResNet_cfg \cup {10, 152}
Variants == {"a", "b", "c", "d"}
NumStages == 0..(Len(ch_out_list) + 1)
DefaultReturnIdx == <<0, 1, 2, 3>>

SeqsUpTo(S, n) == UNION {[1..k -> S] : k \in 0..n}

ArgsOf(depths, variants, stages, idxs, freezes, norms, types) ==
    [depth : depths, variant : variants, num_stages : stages, return_idx : idxs,
     freeze_at : freezes, freeze_norm : norms, norm_type : types]

\* every depth, variant, num_stages, freeze_at, freeze_norm and norm layer
WideArgs ==
    ArgsOf(Depths, Variants, NumStages, {DefaultReturnIdx},
           -1..MaxFreezeAt, BOOLEAN, {"BN", "GN"})

\* every num_stages and return_idx
ReturnIdxArgs ==
    ArgsOf({18, 50}, {"d"}, NumStages,
           SeqsUpTo(-1..Len(ch_out_list), MaxReturnLen) \cup {DefaultReturnIdx},
           {-1}, {TRUE}, {"BN"})

InitWith(A) ==
    /\ pc = "new"
    /\ args \in A
    /\ net = NoModule
    /\ out_channels = <<>>
    /\ out_strides = <<>>
    /\ outs = <<>>
    /\ fbn = NoModule
    /\ state_dict = <<>>
    /\ loaded = <<>>
    /\ missing_keys = {}
    /\ unexpected_keys = {}
    /\ y = <<>>
    /\ op = "none"

Init == InitWith(WideArgs)

Construct ==
    /\ pc = "new"
    /\ args # NoArgs
    /\ \E r \in {PResNet(args)} :
           /\ pc' = r.pc
           /\ net' = r.net
           /\ out_channels' = r.out_channels
           /\ out_strides' = r.out_strides
    /\ op' = "__init__"
    /\ UNCHANGED <<args, outs, fbnVars>>

Forward(id) ==
    /\ pc = "ready"
    /\ \E r \in {PResNet_forward(net, args.return_idx, Tensor(id))} :
           /\ outs' = r.outs
           /\ op' = IF r.ok THEN "forward" ELSE "RuntimeError"
    /\ UNCHANGED <<pc, args, net, out_channels, out_strides, fbnVars>>

Next ==
    \/ Construct
    \/ \E id \in 1..NumInputs : Forward(id)

Spec == Init /\ [][Next]_vars

SpecReturnIdx == InitWith(ReturnIdxArgs) /\ [][Next]_vars

----------------------------------------------------------------------------
(* FrozenBatchNorm2d *)

BufferValue(m, name) ==
    m.buffers[CHOOSE k \in 1..Len(m.buffers) : m.buffers[k].name = name].value

\* a forward that tracks the batch statistics, as BatchNorm2d does when training
ForwardTrackingStats(self, x) ==
    [self |-> [self EXCEPT !.buffers =
                    [k \in 1..Len(self.buffers) |->
                        IF self.buffers[k].name = "running_mean"
                        THEN Buffer("running_mean", self.buffers[k].value + x)
                        ELSE self.buffers[k]]],
     out |-> [x |-> x,
              scale |-> <<BufferValue(self, "weight"), BufferValue(self, "running_var")>>,
              bias |-> <<BufferValue(self, "bias"), BufferValue(self, "running_mean"),
                         BufferValue(self, "weight"), BufferValue(self, "running_var")>>]]

\* forward reads the four buffers and writes none: x * scale + bias with
\* scale = w * (rv + eps).rsqrt() and bias = b - rm * scale
FrozenBatchNorm2d_forward(self, x) ==
    LET w == BufferValue(self, "weight")
        b == BufferValue(self, "bias")
        rv == BufferValue(self, "running_var")
        rm == BufferValue(self, "running_mean")
    IN  [self |-> self,
         out |-> [x |-> x, scale |-> <<w, rv>>, bias |-> <<b, rm, w, rv>>]]

StartsWith(key, prefix) ==
    Len(key) > Len(prefix) /\ SubSeq(key, 1, Len(prefix)) = prefix

\* nn.Module._load_from_state_dict: every parameter and buffer of the module is
\* copied from state_dict[prefix + name] when that key is there and is missing
\* otherwise (strict); a key under the prefix that names no parameter, buffer
\* or child of the module is unexpected (strict).
Module_load_from_state_dict(self, sd, prefix, strict) ==
    LET local_state == {self.params[k].name : k \in 1..Len(self.params)}
                        \cup {self.buffers[k].name : k \in 1..Len(self.buffers)}
        children == {self.children[k].name : k \in 1..Len(self.children)}
    IN  [self |->
            [self EXCEPT !.buffers =
                [k \in 1..Len(self.buffers) |->
                    LET key == prefix \o <<self.buffers[k].name>>
                    IN  IF key \in DOMAIN sd
                        THEN Buffer(self.buffers[k].name, sd[key])
                        ELSE self.buffers[k]]],
         state_dict |-> sd,
         missing_keys |->
            IF strict
            THEN {prefix \o <<n>> : n \in {l \in local_state :
                                            prefix \o <<l>> \notin DOMAIN sd}}
            ELSE {},
         unexpected_keys |->
            IF strict
            THEN {key \in DOMAIN sd :
                    /\ StartsWith(key, prefix)
                    /\ LET input_name == SubSeq(key, Len(prefix) + 1, Len(key))
                       IN  IF Len(input_name) > 1
                           THEN input_name[1] \notin children
                           ELSE input_name[1] \notin local_state}
            ELSE {}]

\* a loader that hands the state dict on as it came
LoadKeepingKey(self, sd, prefix, strict) ==
    Module_load_from_state_dict(self, sd, prefix, strict)

Without(sd, key) == [k \in DOMAIN sd \ {key} |-> sd[k]]

_load_from_state_dict(self, sd, prefix, strict) ==
    LET num_batches_tracked_key == prefix \o <<"num_batches_tracked">>
    IN  Module_load_from_state_dict(
            self,
            IF num_batches_tracked_key \in DOMAIN sd
            THEN Without(sd, num_batches_tracked_key) ELSE sd,
            prefix, strict)

\* the state dict of module m saved under prefix, every tensor filled with v
StateDictOf(m, prefix, v) ==
    [key \in {prefix \o <<m.params[k].name>> : k \in 1..Len(m.params)}
             \cup {prefix \o <<m.buffers[k].name>> : k \in 1..Len(m.buffers)}
        |-> v]

Prefixes == {<<>>, <<"norm">>}

\* keys a checkpoint may hold besides the module's own
ExtraKeys(prefix) ==
    {prefix \o <<"extra">>, <<"other", "num_batches_tracked">>}

\* the state dicts drawn: one of an ordinary BatchNorm2d, one of a
\* FrozenBatchNorm2d, a partial one and an empty one, each alone or with one
\* more key
StateDicts(n, prefix) ==
    LET base == {StateDictOf(BatchNorm2d(n), prefix, v) : v \in 1..MaxVal}
                \cup {StateDictOf(FrozenBatchNorm2d(n), prefix, v) : v \in 1..MaxVal}
                \cup {StateDictOf(Conv2d(n, n, 1, TRUE), prefix, v) : v \in 1..MaxVal}
                \cup {StateDictOf(Module("Identity"), prefix, 0)}
    IN  base \cup {sd @@ (e :> MaxVal) : sd \in base, e \in ExtraKeys(prefix)}

InitFrozenBN == InitWith({NoArgs})

NewFrozenBatchNorm2d(n) ==
    /\ pc = "new"
    /\ args = NoArgs
    /\ pc' = "frozen_bn"
    /\ fbn' = FrozenBatchNorm2d(n)
    /\ op' = "__init__"
    /\ UNCHANGED <<args, net, out_channels, out_strides, outs, state_dict, loaded,
                   missing_keys, unexpected_keys, y>>

FrozenForward(id) ==
    /\ pc = "frozen_bn"
    /\ \E r \in {FrozenBatchNorm2d_forward(fbn, id)} :
           /\ fbn' = r.self
           /\ y' = r.out
    /\ state_dict' = <<>>
    /\ loaded' = <<>>
    /\ missing_keys' = {}
    /\ unexpected_keys' = {}
    /\ op' = "forward"
    /\ UNCHANGED netVars

LoadFromStateDict(prefix, strict) ==
    /\ pc = "frozen_bn"
    /\ \E sd \in StateDicts(fbn.num_features, prefix) :
       \E r \in {_load_from_state_dict(fbn, sd, prefix, strict)} :
           /\ fbn' = r.self
           /\ state_dict' = r.state_dict
           /\ missing_keys' = r.missing_keys
           /\ unexpected_keys' = r.unexpected_keys
           /\ loaded' = [state_dict |-> sd, prefix |-> prefix, strict |-> strict]
    /\ y' = <<>>
    /\ op' = "load_state_dict"
    /\ UNCHANGED netVars

NextFrozenBN ==
    \/ \E n \in 1..MaxFeatures : NewFrozenBatchNorm2d(n)
    \/ \E id \in 1..NumInputs : FrozenForward(id)
    \/ \E prefix \in Prefixes, strict \in BOOLEAN : LoadFromStateDict(prefix, strict)

SpecFrozenBN == InitFrozenBN /\ [][NextFrozenBN]_vars

----------------------------------------------------------------------------
(* Properties *)

\* the trail of the output of stage i: the stem, the max-pool, stages 0..i
StageTrail(i) ==
    <<"conv1", "max_pool2d">> \o [k \in 1..(i + 1) |-> ToString(k - 1)]

\* the stages that exist and whose index is in return_idx
ReturnedStages ==
    {i \in 0..(args.num_stages - 1) :
        \E k \in 1..Len(args.return_idx) : args.return_idx[k] = i}

Stage(i) == Child(net, "res_layers").children[i + 1].module

\* C1: forward applies conv1, the stride-2 max-pool and then every stage in
\* order, each on the previous stage's output, and returns the outputs of exactly
\* the stages whose index is in return_idx, in ascending stage order; the other
\* stages run (they are on the trail of the later outputs) and return nothing.
C1_ForwardReturnsSelectedStages ==
    (pc = "ready" /\ op = "forward") =>
        /\ Len(outs) = Cardinality(ReturnedStages)
        /\ \A k \in 1..Len(outs) :
            \E i \in ReturnedStages :
                /\ Cardinality({j \in ReturnedStages : j < i}) = k - 1
                /\ outs[k].trail = StageTrail(i)
                /\ outs[k].stride = 2 * 2 * 2 ^ i

\* stage 2 alone is returned, after stages 0 and 1 ran without returning
C1_Witness ==
    /\ pc = "ready" /\ op = "forward"
    /\ args.num_stages = 4 /\ args.return_idx = <<2>>
    /\ Len(outs) = 1
    /\ outs[1].trail = <<"conv1", "max_pool2d", "0", "1", "2">>

\* C6: for every num_stages and return_idx the list forward returns is as long
\* as out_channels and out_strides, and its k-th element is the output of stage
\* return_idx[k], with out_channels[k] channels and stride out_strides[k].
C6_OutsMatchOutChannels ==
    (pc = "ready" /\ op = "forward") =>
        /\ Len(outs) = Len(out_channels)
        /\ Len(outs) = Len(out_strides)
        /\ \A k \in 1..Len(outs) :
            /\ outs[k].trail = StageTrail(args.return_idx[k])
            /\ outs[k].c = out_channels[k]
            /\ outs[k].stride = out_strides[k]

\* the requires_grad flags found among the parameters of m and its descendants
RECURSIVE RequiresGrad(_)
RequiresGrad(m) ==
    {m.params[k].requires_grad : k \in 1..Len(m.params)}
    \cup UNION {RequiresGrad(m.children[k].module) : k \in 1..Len(m.children)}

\* C2: with freeze_at >= 0 every parameter of conv1 and of stages
\* 0..min(freeze_at, num_stages)-1 has requires_grad False and every parameter of
\* the other stages has requires_grad True; with freeze_at < 0 every parameter
\* keeps the requires_grad True it was built with.
C2_FreezeAt ==
    pc = "ready" =>
        IF args.freeze_at >= 0
        THEN /\ RequiresGrad(Child(net, "conv1")) = {FALSE}
             /\ \A i \in 0..(args.num_stages - 1) :
                    RequiresGrad(Stage(i)) =
                        {~(i < args.freeze_at /\ i < args.num_stages)}
        ELSE RequiresGrad(net) = {TRUE}

\* stages 0 and 1 of four are frozen, stages 2 and 3 are not
C2_Witness ==
    /\ pc = "ready" /\ args.freeze_at = 2 /\ args.num_stages = 4
    /\ RequiresGrad(Child(net, "conv1")) = {FALSE}
    /\ RequiresGrad(Stage(1)) = {FALSE}
    /\ RequiresGrad(Stage(2)) = {TRUE}

RECURSIVE HasClass(_, _)
HasClass(m, cls) ==
    m.cls = cls \/ \E k \in 1..Len(m.children) : HasClass(m.children[k].module, cls)

\* b is a with every BatchNorm2d replaced, in place and under the same name, by
\* a FrozenBatchNorm2d of the same num_features, and nothing else changed
RECURSIVE NormsReplaced(_, _)
NormsReplaced(a, b) ==
    IF a.cls = "BatchNorm2d"
    THEN /\ b.cls = "FrozenBatchNorm2d"
         /\ b.num_features = a.num_features
         /\ b.children = <<>>
    ELSE /\ [b EXCEPT !.children = <<>>] = [a EXCEPT !.children = <<>>]
         /\ Len(b.children) = Len(a.children)
         /\ \A k \in 1..Len(a.children) :
                /\ b.children[k].name = a.children[k].name
                /\ NormsReplaced(a.children[k].module, b.children[k].module)

\* the module tree as it is when __init__ reaches the freeze_norm test
BeforeFreezeNorm == FreezeAt(BuildLayers(args), args.freeze_at, args.num_stages)

\* C3: with freeze_norm=True no BatchNorm2d is left at any depth of the tree,
\* each one having been replaced under its name in its parent by a
\* FrozenBatchNorm2d of the same num_features while every other module stays;
\* with freeze_norm=False the tree is as it was built.
C3_FreezeNorm ==
    pc = "ready" =>
        IF args.freeze_norm
        THEN /\ ~HasClass(net, "BatchNorm2d")
             /\ NormsReplaced(BeforeFreezeNorm, net)
        ELSE net = BeforeFreezeNorm

\* a bottleneck's shortcut, seven levels down, had its BatchNorm2d replaced
C3_Witness ==
    /\ pc = "ready" /\ args.freeze_norm /\ args.norm_type = "BN"
    /\ args.depth = 50 /\ args.variant = "d" /\ args.num_stages = 4
    /\ Child(Child(Child(Child(Child(Stage(1), "blocks"), "0"), "short"),
                   "conv"), "norm")
        = FrozenBatchNorm2d(512)
    /\ HasClass(BeforeFreezeNorm, "BatchNorm2d")

\* C7: depth >= 50 builds every stage from BottleNeck blocks (expansion 4) and
\* depth < 50 from BasicBlock blocks (expansion 1); stage i holds
\* ResNet_cfg[depth][i] blocks and puts out expansion * [64, 128, 256, 512][i]
\* channels; a depth outside {18, 34, 50, 101} ends in a KeyError with no layer
\* built.
C7_DepthSelectsBlocks ==
    /\ (op = "__init__" /\ args.depth \notin {18, 34, 50, 101}) =>
            pc = "KeyError" /\ net = NoModule
    /\ pc = "ready" =>
        LET bottleneck == args.depth >= 50
            expansion == IF bottleneck THEN 4 ELSE 1
            channels == <<64, 128, 256, 512>>
        IN  /\ args.depth \in {18, 34, 50, 101}
            /\ \A i \in 0..(args.num_stages - 1) :
                LET blocks == Child(Stage(i), "blocks").children
                    x == [Tensor(1) EXCEPT
                            !.c = IF i = 0 THEN 64 ELSE expansion * channels[i]]
                    out == ModuleForward(Stage(i), x)
                IN  /\ Len(blocks) = ResNet_cfg[args.depth][i + 1]
                    /\ \A k \in 1..Len(blocks) :
                        blocks[k].module.cls =
                            IF bottleneck THEN "BottleNeck" ELSE "BasicBlock"
                    /\ out.ok
                    /\ out.c = expansion * channels[i + 1]

\* depth 50 built its third stage from six bottlenecks putting out 1024 channels
C7_Witness ==
    /\ pc = "ready" /\ args.depth = 50 /\ args.num_stages = 4
    /\ Len(Child(Stage(2), "blocks").children) = 6
    /\ Child(Child(Stage(2), "blocks"), "5").cls = "BottleNeck"
    /\ ModuleForward(Stage(2), [Tensor(1) EXCEPT !.c = 512]).c = 1024

FourBuffers == <<"weight", "bias", "running_mean", "running_var">>

\* C4: weight, bias, running_mean and running_var of a FrozenBatchNorm2d are
\* buffers and it has no parameter; no forward changes any of them: a step that
\* changes the module is a state-dict load.
C4_BuffersFixed ==
    /\ [](pc = "frozen_bn" =>
            /\ fbn.params = <<>>
            /\ [k \in 1..Len(fbn.buffers) |-> fbn.buffers[k].name] = FourBuffers)
    /\ [][(pc = "frozen_bn" /\ fbn' # fbn) => op' = "load_state_dict"]_vars

\* a forward after a load that changed running_mean: the loaded value is kept
C4_Witness ==
    /\ pc = "frozen_bn" /\ op = "forward"
    /\ BufferValue(fbn, "running_mean") = 1
    /\ y.bias[2] = 1

\* the state dict an ordinary BatchNorm2d saves under prefix
SavedByBatchNorm2d(sd, prefix) ==
    DOMAIN sd = {prefix \o <<n>> : n \in {"weight", "bias", "running_mean",
                                          "running_var", "num_batches_tracked"}}

\* C5: the load removes prefix + "num_batches_tracked" from the state dict when
\* it is there and no other key, and hands the rest to the base loader; the
\* state dict of an ordinary BatchNorm2d then loads with no missing and no
\* unexpected key, its four tensors taken over.
C5_LoadDropsNumBatchesTracked ==
    (pc = "frozen_bn" /\ op = "load_state_dict") =>
        LET given == loaded.state_dict
            key == loaded.prefix \o <<"num_batches_tracked">>
        IN  /\ DOMAIN state_dict = DOMAIN given \ {key}
            /\ \A k \in DOMAIN state_dict : state_dict[k] = given[k]
            /\ SavedByBatchNorm2d(given, loaded.prefix) =>
                /\ missing_keys = {}
                /\ unexpected_keys = {}
                /\ \A b \in 1..Len(FourBuffers) :
                    BufferValue(fbn, FourBuffers[b])
                        = given[loaded.prefix \o <<FourBuffers[b]>>]

\* a strict load of a BatchNorm2d's state dict saved under "norm."
C5_Witness ==
    /\ pc = "frozen_bn" /\ op = "load_state_dict"
    /\ loaded.strict /\ loaded.prefix = <<"norm">>
    /\ SavedByBatchNorm2d(loaded.state_dict, loaded.prefix)
    /\ <<"norm", "num_batches_tracked">> \notin DOMAIN state_dict
    /\ unexpected_keys = {} /\ missing_keys = {}
    /\ BufferValue(fbn, "running_mean") = 1
====
